---- MODULE Spec2Model ----
(***************************************************************************)
(* Model of the ST7789V2 display driver (DMA variants and draw adapter).   *)
(*                                                                         *)
(* A driver function is an operator that yields the ordered list of        *)
(* primitive steps its body performs (pin writes, delays, buffer stores,   *)
(* transfer start / release, loop control).  The steps are executed one at *)
(* a time by the actions below, so that the states in which a transfer is  *)
(* in flight are states of the model.                                      *)
(***************************************************************************)
EXTENDS Integers, Sequences, FiniteSets, TLC

VARIABLES
    variant,    \* which driver snapshot the handle is: "inplace" | "builder"
    buf_len,    \* capacity of the chunk buffer (chunk_buffer.len())
    cs, dc, rst,\* levels of the three output lines
    present,    \* resources that are present in the driver handle
    tf,         \* resources owned by the in-flight Transfer ({} = none)
    held,       \* resources owned by a local variable of the running call
    mem,        \* contents of the staging buffers
    status,     \* "idle" | "running" | "returned" | a panic
    call,       \* the public operation being executed and its arguments
    todo,       \* the steps the running operation still has to perform
    idx,        \* fill_contiguous: write index into the chunk buffer
    clrs,       \* fill_contiguous: the pixel iterator
    pos,        \* fill_contiguous: number of items taken from the iterator
    trace,      \* bus / line / delay events of the current call, in order
    ncalls,     \* number of public operations started on this handle
    fault,      \* the failure reported to the current call ("" = none)
    last        \* operation and trace of the previous call on this handle

vars == <<variant, buf_len, cs, dc, rst, present, tf, held, mem, status,
          call, todo, idx, clrs, pos, trace, ncalls, fault, last>>

----------------------------------------------------------------------------
(* Bounds of the model *)

W == 3                  \* panel width  (const generic W)
H == 2                  \* panel height (const generic H)
MaxBufLen == 4          \* largest chunk buffer capacity explored
MaxCalls == 2           \* public operations per behaviour
MaxPinFailures == 2     \* line writes that fail within one call

(* Program constants *)
OFFSET == 20
U16 == 256 * 256
ChunkSize == 32 * 1024          \* send_frame: chunk_size
ColorBufferLen == 2 * 1024      \* draw_color_entire_screen: color_buffer

CmdSoftwareReset == 1
CmdSleepOut == 17
CmdSetColorMode == 58
CmdMemoryDataAccessControl == 54
CmdDisplayOn == 41
CmdDisplayOff == 40
CmdCASET == 42
CmdRASET == 43
CmdRAMWR == 44
CmdInversionOn == 33
RGB565 == 85

----------------------------------------------------------------------------
(* Values *)

Hi(v) == (v \div 256) % 256         \* (v >> 8) as u8
Lo(v) == v % 256                    \* (v & 0xFF) as u8
AsU16(i) == i % U16                 \* i as u16
Min(a, b) == IF a < b THEN a ELSE b
Max(a, b) == IF a > b THEN a ELSE b

to_be_bytes(c) == <<c \div 256, c % 256>>

Rect(x, y, w, h) == [x |-> x, y |-> y, w |-> w, h |-> h]

bounding_box == Rect(0, 0, W, H)

(* embedded-graphics Rectangle::bottom_right is None for a zero sized
   rectangle; contains() is false for every point of a zero sized one. *)
is_zero_sized(r) == r.w = 0 \/ r.h = 0

contains(r, px, py) ==
    /\ ~is_zero_sized(r)
    /\ px >= r.x /\ py >= r.y
    /\ px <= r.x + r.w - 1 /\ py <= r.y + r.h - 1

overlaps(a0, a1, b0, b1) == Max(a0, b0) <= Min(a1, b1)

intersection(self, other) ==
    IF ~is_zero_sized(self) /\ ~is_zero_sized(other)
    THEN IF /\ overlaps(self.x, self.x + self.w - 1, other.x, other.x + other.w - 1)
            /\ overlaps(self.y, self.y + self.h - 1, other.y, other.y + other.h - 1)
         THEN LET x0 == Max(self.x, other.x)
                  y0 == Max(self.y, other.y)
                  x1 == Min(self.x + self.w - 1, other.x + other.w - 1)
                  y1 == Min(self.y + self.h - 1, other.y + other.h - 1)
              IN  Rect(x0, y0, x1 - x0 + 1, y1 - y0 + 1)
         ELSE Rect(0, 0, 0, 0)
    ELSE IF is_zero_sized(self) /\ ~is_zero_sized(other)
    THEN IF contains(other, self.x, self.y) THEN self ELSE Rect(0, 0, 0, 0)
    ELSE IF ~is_zero_sized(self) /\ is_zero_sized(other)
    THEN IF contains(self, other.x, other.y) THEN other ELSE Rect(0, 0, 0, 0)
    ELSE Rect(0, 0, 0, 0)

(* The pixel source handed to fill_contiguous.  A "seq" source yields len
   items, item i (0-based) being the colour ColourOf(i); a "repeat" source
   is core::iter::repeat(color). *)
ColourOf(i) == 256 * (2 * i + 1) + (2 * i + 2)

SeqSource(n) == [kind |-> "seq", len |-> n, color |-> 0]
RepeatSource(c) == [kind |-> "repeat", len |-> 0, color |-> c]

(* mutant: a source that has run out keeps yielding items *)
HasNext_always(src, p) == TRUE

(* clrs.next() is Some(..) *)
HasNext(src, p) == src.kind = "repeat" \/ p < src.len
NextItem(src, p) == IF src.kind = "repeat" THEN src.color ELSE ColourOf(p)

----------------------------------------------------------------------------
(* Primitive steps *)

Step(k, s, t, n, m) == [k |-> k, s |-> s, t |-> t, n |-> n, m |-> m]

Pin(p, l)       == Step("pin", p, l, 0, <<>>)
Delay(ms)       == Step("delay", "", "", ms, <<>>)
Store(b, bytes) == Step("store", b, "", 0, bytes)
Start(b, how)   == Step("start", b, how, 0, <<>>)
Release(b, how) == Step("release", b, how, 0, <<>>)
StartRaw(b, how, len, d) == Step("start", b, how, len, d)
Unimplemented   == Step("unimplemented", "", "", 0, <<>>)
TryPin(p, l, tag) == Step("try_pin", p, l, 0, <<tag>>)
SpiWrite(bytes) == Step("spi_write", "", "", 0, bytes)
CheckedAdd      == Step("checked_add", "", "", 0, <<>>)
Take(colors)    == Step("take", "", "", 0, colors)
For(n)          == Step("for", "", "", n, <<>>)
ResetIdx        == Step("reset_idx", "", "", 0, <<>>)
Write           == Step("write", "", "", 0, <<>>)
FlushIf         == Step("flush_if", "", "", 0, <<>>)
Put             == Step("put", "", "", 0, <<>>)
Ret             == Step("ret", "", "", 0, <<>>)

(* Events of the trace *)
Event(k, s, t, c, n, bs) ==
    [k |-> k, s |-> s, t |-> t, c |-> c, n |-> n, bs |-> bs]

----------------------------------------------------------------------------
(* The driver functions: the steps of each body, in program order.  v is
   the driver snapshot: "inplace" (&mut self) or "builder" (self -> Self). *)

(* &mut self driver: the stream, the transmitter and the buffer are bitwise
   duplicated into the Transfer and written back after release. *)
transfer_inplace(b) == <<Start(b, "dup"), Release(b, "dup")>>

(* mutant: the self -> Self driver sends every buffer twice *)
transfer_builder_twice(b) ==
    <<Start(b, "move"), Release(b, "move"), Start(b, "move"), Release(b, "move")>>

(* self -> Self driver: the three fields are moved into the Transfer and
   moved back after release. *)
transfer_builder(b) == <<Start(b, "move"), Release(b, "move")>>

transfer(v, b) == IF v = "inplace" THEN transfer_inplace(b) ELSE transfer_builder(b)

(* mutant: the primitive releases chip select when the byte has gone out *)
send_command_deselects(v, cmd) ==
    <<Store("cmd_buf", <<cmd>>), Pin("dc", "low")>> \o transfer(v, "cmd_buf")
        \o <<Pin("cs", "high")>>

send_command(v, cmd) ==
    <<Store("cmd_buf", <<cmd>>), Pin("dc", "low")>> \o transfer(v, "cmd_buf")

send_data_u8(v, data) ==
    <<Store("data_buf", <<data>>), Pin("dc", "high")>> \o transfer(v, "data_buf")

send_caset_data_safe(v, delay_ms) ==
    <<Pin("dc", "high")>> \o transfer(v, "caset_buf") \o <<Delay(delay_ms)>>

send_raset_data_safe(v, delay_ms) ==
    <<Pin("dc", "high")>> \o transfer(v, "raset_buf") \o <<Delay(delay_ms)>>

cs_command(v, cmd, delay_ms) ==
    <<Pin("cs", "low")>> \o send_command(v, cmd)
        \o <<Delay(delay_ms), Pin("cs", "high")>>

cs_data(v, data, delay_ms) ==
    <<Pin("cs", "low")>> \o send_data_u8(v, data)
        \o <<Delay(delay_ms), Pin("cs", "high")>>

(* mutant: chip select is released after the command and asserted again
   for the data *)
cs_command_data_split(v, cmd, data_method, cmd_delay) ==
    cs_command(v, cmd, cmd_delay)
        \o <<Pin("cs", "low")>> \o data_method \o <<Pin("cs", "high")>>

cs_command_data_sequence(v, cmd, data_method, cmd_delay) ==
    <<Pin("cs", "low")>> \o send_command(v, cmd) \o <<Delay(cmd_delay)>>
        \o data_method \o <<Pin("cs", "high")>>

select == <<Pin("cs", "low")>>

(* mutant: deselect leaves chip select as it is *)
deselect_forgotten == <<>>

deselect == <<Pin("cs", "high")>>

(* mutant: the display is switched on before inversion is *)
init_display_on_early(v) ==
    <<Pin("rst", "low"), Delay(120), Pin("rst", "high"), Delay(150)>>
        \o cs_command(v, CmdSoftwareReset, 150)
        \o cs_command(v, CmdSleepOut, 120)
        \o cs_command(v, CmdSetColorMode, 1)
        \o cs_data(v, RGB565, 10)
        \o cs_command(v, CmdMemoryDataAccessControl, 1)
        \o cs_data(v, 0, 10)
        \o cs_command(v, CmdDisplayOn, 50)
        \o cs_command(v, CmdInversionOn, 1)

init(v) ==
    <<Pin("rst", "low"), Delay(120), Pin("rst", "high"), Delay(150)>>
        \o cs_command(v, CmdSoftwareReset, 150)
        \o cs_command(v, CmdSleepOut, 120)
        \o cs_command(v, CmdSetColorMode, 1)
        \o cs_data(v, RGB565, 10)
        \o cs_command(v, CmdMemoryDataAccessControl, 1)
        \o cs_data(v, 0, 10)
        \o cs_command(v, CmdInversionOn, 1)
        \o cs_command(v, CmdDisplayOn, 50)

(* mutant: the column bounds serialised low byte first *)
caset_bytes_le(xs, xe) == <<Lo(xs), Hi(xs), Lo(xe), Hi(xe)>>

caset_bytes(xs, xe) == <<Hi(xs), Lo(xs), Hi(xe), Lo(xe)>>

raset_bytes(actual_ys, actual_ye) ==
    <<Hi(actual_ys), Lo(actual_ys), Hi(actual_ye), Lo(actual_ye)>>

(* u16 addition: a CheckedAdd step precedes an addition that overflows; it
   panics in a build with overflow checks and otherwise the sum wraps. *)
(* mutant: the addend is dropped *)
add_u16_dropped(a, b) == a % U16

add_u16(a, b) == (a + b) % U16
add_u16_steps(a, b) == IF a + b >= U16 THEN <<CheckedAdd>> ELSE <<>>

set_size(v, xs, xe, ys, ye) ==
    LET actual_ys == add_u16(ys, OFFSET)
        actual_ye == add_u16(ye, OFFSET)
    IN  add_u16_steps(ys, OFFSET) \o add_u16_steps(ye, OFFSET)
        \o <<Store("caset_buf", caset_bytes(xs, xe)),
             Store("raset_buf", raset_bytes(actual_ys, actual_ye))>>
        \o cs_command_data_sequence(v, CmdCASET, send_caset_data_safe(v, 1), 1)
        \o cs_command_data_sequence(v, CmdRASET, send_raset_data_safe(v, 1), 1)

(* mutant: begin_draw pulls the reset line low first *)
begin_draw_resets(v) == <<Pin("rst", "low")>> \o cs_command(v, CmdRAMWR, 10)

begin_draw(v) == cs_command(v, CmdRAMWR, 10)

off(v) == cs_command(v, CmdDisplayOff, 50)

(* send_data_raw(data): data is a slice of memory of the caller, described
   by its name b, its length len and a descriptor d: <<offset>> of the slice
   in the frame buffer, or <<byte>> for the colour buffer that holds one
   byte value throughout.  Neither line is touched. *)
send_data_raw(v, b, len, d) ==
    LET how == IF v = "inplace" THEN "raw_dup" ELSE "raw_move"
    IN  <<StartRaw(b, how, len, d), Release(b, how)>>

(* buffer.chunks(chunk_size) of a buffer of n bytes, from offset o on:
   full chunks and a shorter last one, none for an empty buffer *)
(* mutant: the last chunk is as long as the others *)
chunk_len_full(o, n, chunk_size) == chunk_size

(* length of the chunk that starts at offset o: chunk_size, or what is left
   of the buffer *)
chunk_len(o, n, chunk_size) == Min(chunk_size, n - o)

RECURSIVE chunks(_, _, _)
chunks(o, n, chunk_size) ==
    IF o >= n THEN <<>>
    ELSE <<[o |-> o, len |-> chunk_len(o, n, chunk_size)]>>
            \o chunks(o + chunk_size, n, chunk_size)

RECURSIVE send_each(_, _)
send_each(v, cks) ==
    IF cks = <<>> THEN <<>>
    ELSE send_data_raw(v, "frame", Head(cks).len, <<Head(cks).o>>)
            \o send_each(v, Tail(cks))

(* mutant: the data/command line is left as the previous operation left
   it *)
send_frame_dc_untouched(v, n) ==
    <<Pin("cs", "low")>>
        \o send_each(v, chunks(0, n, ChunkSize))
        \o <<Pin("cs", "high")>>

send_frame(v, n) ==
    <<Pin("dc", "high"), Pin("cs", "low")>>
        \o send_each(v, chunks(0, n, ChunkSize))
        \o <<Pin("cs", "high")>>

(* draw_entire_screen(buffer): the window is the whole visible area, rows
   OFFSET..OFFSET+H-1, then write-RAM and the buffer in chunks *)
draw_entire_screen(v, n) ==
    LET x_start == 0
        x_end   == AsU16(W) - 1
        y_start == AsU16(OFFSET)
        y_end   == add_u16(y_start, AsU16(H)) - 1
    IN  add_u16_steps(y_start, AsU16(H))
        \o <<Store("caset_buf", caset_bytes(x_start, x_end)),
             Store("raset_buf", raset_bytes(y_start, y_end))>>
        \o cs_command_data_sequence(v, CmdCASET, send_caset_data_safe(v, 1), 1)
        \o cs_command_data_sequence(v, CmdRASET, send_raset_data_safe(v, 1), 1)
        \o cs_command(v, CmdRAMWR, 10)
        \o <<Pin("dc", "high"), Pin("cs", "low")>>
        \o send_each(v, chunks(0, n, ChunkSize))
        \o <<Pin("cs", "high")>>

RECURSIVE repeat_steps(_, _)
repeat_steps(k, steps) ==
    IF k = 0 THEN <<>> ELSE steps \o repeat_steps(k - 1, steps)

draw_color_entire_screen(v, color) ==
    set_size(v, 0, 240, 0, 320)
        \o begin_draw(v)
        \o <<Pin("dc", "high"), Pin("cs", "low")>>
        \o repeat_steps((W * H * 2) \div ColorBufferLen + 1,
                send_data_raw(v, "color_buffer", ColorBufferLen, <<Lo(color)>>))
        \o <<Pin("cs", "high")>>

(* One burst of the chunk buffer: the buffer handed over by the caller is
   the memory of the transfer; stream and transmitter are checked out of
   the handle and checked back in, the buffer goes back to the caller. *)
send_data_chunk == <<Start("chunk_buffer", "chunk"), Release("chunk_buffer", "chunk")>>

(* mutant: the buffer is flushed one pixel early *)
need_flush_early(i, len) == i + 2 >= len

need_flush(i, len) == i + 2 > len

(* mutant: chip select is released and asserted again around every burst *)
loop_body_cs_per_chunk(i, len) ==
    (IF need_flush(i, len)
     THEN send_data_chunk \o deselect \o select \o <<ResetIdx>>
     ELSE <<>>) \o <<Write>>

(* One iteration of the pixel loop: flush a full buffer and restart at its
   beginning, then write the next pixel. *)
loop_body(i, len) ==
    (IF need_flush(i, len) THEN send_data_chunk \o <<ResetIdx>> ELSE <<>>)
        \o <<Write>>

(* mutant: the buffer is not put back *)
put_back_forgotten == <<>>

put_back == <<Put>>

(* mutant: the loop runs once more than the rectangle has pixels *)
pixel_count_one_more(width, height) == width * height + 1

(* `for _ in 0..(width * height)` *)
pixel_count(width, height) == width * height

fill_contiguous(area, colors) ==
    LET drawable_area == intersection(area, bounding_box)
        startx == drawable_area.x
        starty == drawable_area.y
        width  == drawable_area.w
        height == drawable_area.h
        endx   == startx + width - 1
        endy   == starty + height - 1
    IN  <<Take(colors)>>
        \o set_size("inplace", AsU16(startx), AsU16(endx), AsU16(starty), AsU16(endy))
        \o begin_draw("inplace")
        \o <<Pin("dc", "high")>>
        \o select
        \o <<For(pixel_count(width, height)), FlushIf>>
        \o deselect
        \o put_back

fill_solid(area, color) == fill_contiguous(area, RepeatSource(color))

clear(color) == fill_solid(bounding_box, color)

(* mutant: the pixels are dropped and the call returns *)
draw_iter_ignored == <<>>

(* unimplemented!("DMA doesnt support drawing individual pixels") *)
draw_iter == <<Unimplemented>>

----------------------------------------------------------------------------
(* The synchronous driver (spi.rs): every line write and every bus write
   is followed by `map_err(..)?`, the tag being the Error variant. *)

spi_send_command(cmd) ==
    <<TryPin("dc", "low", "DC"), TryPin("cs", "low", "CS"),
      SpiWrite(<<cmd>>), TryPin("cs", "high", "CS")>>

spi_send_data(data) ==
    <<TryPin("dc", "high", "DC"), TryPin("cs", "low", "CS"),
      SpiWrite(data), TryPin("cs", "high", "CS")>>

spi_init ==
    <<TryPin("rst", "low", "RST"), Delay(120),
      TryPin("rst", "high", "RST"), Delay(150)>>
        \o spi_send_command(CmdSoftwareReset) \o <<Delay(150)>>
        \o spi_send_command(CmdSleepOut) \o <<Delay(150)>>
        \o spi_send_command(CmdSetColorMode) \o spi_send_data(<<RGB565>>)
        \o <<Delay(10)>>
        \o spi_send_command(CmdMemoryDataAccessControl) \o spi_send_data(<<0>>)
        \o <<Delay(10)>>
        \o spi_send_command(CmdDisplayOn) \o <<Delay(10)>>

spi_draw_screen(buffer) ==
    LET y_offset == 20
        y_end    == (y_offset + AsU16(H) - 1) % U16
        x_offset == 0
        x_end    == (AsU16(W) - 1) % U16
    IN  spi_send_command(CmdCASET)
        \o spi_send_data(<<Hi(x_offset), Lo(x_offset), Hi(x_end), Lo(x_end)>>)
        \o spi_send_command(CmdRASET)
        \o spi_send_data(<<Hi(y_offset), Lo(y_offset), Hi(y_end), Lo(y_end)>>)
        \o spi_send_command(CmdRAMWR)
        \o spi_send_data(buffer)

(* draw_screen of the synchronous driver of st7789v2.rs, whose send_command
   and send_data are those of spi.rs: the window ends are W and H
   themselves and the rows start at 0 *)
st7789v2_draw_screen(buffer) ==
    LET ca_msb == Hi(W)
        ca_lsb == Lo(W)
        ra_msb == Hi(H)
        ra_lsb == Lo(H)
    IN  spi_send_command(CmdCASET)
        \o spi_send_data(<<0, 0, ca_msb, ca_lsb>>)
        \o spi_send_command(CmdRASET)
        \o spi_send_data(<<0, 0, ra_msb, ra_lsb>>)
        \o spi_send_command(CmdRAMWR)
        \o spi_send_data(buffer)

(* mutant: the error is dropped, as `.ok()` does, and the body goes on *)
question_mark_ignored(rest) == rest

(* `?` on an Err: the function returns the error at once, none of the rest
   of the body runs (and none of its caller's, which applies `?` too) *)
question_mark(rest) == <<>>

----------------------------------------------------------------------------
(* State *)

Level == {"low", "high"}
Variant == {"inplace", "builder", "sync"}
HandleBufs == {"cmd_buf", "data_buf", "caset_buf", "raset_buf"}

(* The resources a handle of the given snapshot is built from *)
ResOf(v) ==
    IF v = "sync" THEN {"spi"}
    ELSE {"st", "tx"} \cup HandleBufs
            \cup (IF v = "inplace" THEN {"chunk_buffer"} ELSE {})

Zeros(n) == [i \in 1..n |-> 0]

NoCall == [op |-> "none", area |-> Rect(0, 0, 0, 0), colors |-> SeqSource(0),
           xs |-> 0, xe |-> 0, ys |-> 0, ye |-> 0, len |-> 0]

new(v, c) ==
    /\ variant = v
    /\ buf_len = c
    /\ cs = "low" /\ dc = "low" /\ rst = "low"
    /\ present = ResOf(v)
    /\ tf = {}
    /\ held = {}
    /\ mem = [cmd_buf |-> Zeros(1), data_buf |-> Zeros(1),
              caset_buf |-> Zeros(4), raset_buf |-> Zeros(4),
              chunk_buffer |-> Zeros(c)]
    /\ status = "idle"
    /\ call = NoCall
    /\ todo = <<>>
    /\ idx = 0
    /\ clrs = SeqSource(0)
    /\ pos = 0
    /\ trace = <<>>
    /\ ncalls = 0
    /\ fault = ""
    /\ last = [op |-> "none", trace |-> <<>>]

Init ==
    \/ \E c \in 2..MaxBufLen : new("inplace", c)
    \/ new("builder", 0)

Running(kind) == status = "running" /\ todo # <<>> /\ Head(todo).k = kind

Log(e) == trace' = Append(trace, e)

----------------------------------------------------------------------------
(* Execution of the primitive steps *)

SetPin ==
    /\ Running("pin")
    /\ LET st == Head(todo) IN
        /\ cs'  = IF st.s = "cs"  THEN st.t ELSE cs
        /\ dc'  = IF st.s = "dc"  THEN st.t ELSE dc
        /\ rst' = IF st.s = "rst" THEN st.t ELSE rst
        /\ Log(Event("pin", st.s, st.t, "", 0, <<>>))
    /\ todo' = Tail(todo)
    /\ UNCHANGED <<variant, buf_len, present, tf, held, mem, status, call,
                   idx, clrs, pos, ncalls, fault, last>>

(* mutant: a failed line write makes the operation return *)
ok_propagated(rest) == <<Ret>>

(* `.ok()` on the result of set_low / set_high: the error is dropped and
   the body goes on *)
ok_ignored(rest) == rest

PinFailures == Cardinality({i \in 1..Len(trace) : trace[i].k = "pin_failed"})

(* A line write of the DMA drivers that fails: the line keeps its level *)
SetPinFails ==
    /\ Running("pin")
    /\ PinFailures < MaxPinFailures
    /\ Log(Event("pin_failed", Head(todo).s, Head(todo).t, "", 0, <<>>))
    /\ todo' = ok_ignored(Tail(todo))
    /\ UNCHANGED <<variant, buf_len, cs, dc, rst, present, tf, held, mem,
                   status, call, idx, clrs, pos, ncalls, fault, last>>

DelayMs ==
    /\ Running("delay")
    /\ Log(Event("delay", "", "", "", Head(todo).n, <<>>))
    /\ todo' = Tail(todo)
    /\ UNCHANGED <<variant, buf_len, cs, dc, rst, present, tf, held, mem,
                   status, call, idx, clrs, pos, ncalls, fault, last>>

StoreBytes ==
    /\ Running("store")
    /\ mem' = [mem EXCEPT ![Head(todo).s] = Head(todo).m]
    /\ todo' = Tail(todo)
    /\ UNCHANGED <<variant, buf_len, cs, dc, rst, present, tf, held, status,
                   call, idx, clrs, pos, trace, ncalls, fault, last>>

(* ys + OFFSET as u16 that does not fit: panic (overflow checks on) or
   wrap (overflow checks off). *)
CheckedAddOverflow ==
    /\ Running("checked_add")
    /\ \/ /\ status' = "panic_overflow"
          /\ todo' = <<>>
       \/ /\ status' = status
          /\ todo' = Tail(todo)
    /\ UNCHANGED <<variant, buf_len, cs, dc, rst, present, tf, held, mem,
                   call, idx, clrs, pos, trace, ncalls, fault, last>>

(* What the Transfer owns once it is constructed *)
TransferOwns(b) == {"st", "tx", b}

(* What is left in the handle / in the caller's local after the Transfer
   has been constructed *)
PresentAfterStart(how, b) ==
    CASE how = "dup"      -> present
      [] how = "move"     -> present \ TransferOwns(b)
      [] how = "chunk"    -> present \ {"st", "tx"}
      [] how = "raw_dup"  -> present
      [] how = "raw_move" -> present \ {"st", "tx"}

HeldAfterStart(how, b) == IF how = "chunk" THEN held \ {b} ELSE held

(* tf.release(): the parts are assigned back (send_data_raw drops the
   buffer part) *)
PresentAfterRelease(how, b) ==
    IF how \in {"chunk", "raw_dup", "raw_move"}
    THEN present \cup (tf \ {b})
    ELSE present \cup tf

(* mutant: send_data_chunk does not give the buffer back *)
HeldAfterReleaseKept(how, b) == held

HeldAfterRelease(how, b) == IF how = "chunk" THEN held \cup {b} ELSE held

TransferStart ==
    /\ Running("start")
    /\ LET st == Head(todo) IN
        /\ tf' = TransferOwns(st.s)
        /\ present' = PresentAfterStart(st.t, st.s)
        /\ held' = HeldAfterStart(st.t, st.s)
        /\ Log(Event("xfer", st.s, dc, cs, st.n,
                      IF st.t \in {"raw_dup", "raw_move"} THEN st.m
                      ELSE mem[st.s]))
    /\ todo' = Tail(todo)
    /\ UNCHANGED <<variant, buf_len, cs, dc, rst, mem, status, call, idx,
                   clrs, pos, ncalls, fault, last>>

(* send_command and send_data_u8 inspect the error flag of the stream after
   wait(); the other senders never look at it. *)
inspects_error_flag(b) == b \in {"cmd_buf", "data_buf"}

(* mutant: a reported transfer error makes the sender's caller return *)
on_transfer_error_return(rest) == <<Ret>>

(* `if tf.is_transfer_error() { debug!(..) }`: the rest of the body runs *)
on_transfer_error(rest) == rest

(* tf.wait() has returned; the stream may have raised its error flag *)
TransferRelease ==
    /\ Running("release")
    /\ tf # {}
    /\ LET st == Head(todo) IN
        /\ present' = PresentAfterRelease(st.t, st.s)
        /\ held' = HeldAfterRelease(st.t, st.s)
        /\ \E err \in BOOLEAN :
            /\ fault' = IF err THEN "transfer" ELSE fault
            /\ todo' = IF err /\ inspects_error_flag(st.s)
                       THEN on_transfer_error(Tail(todo))
                       ELSE Tail(todo)
    /\ tf' = {}
    /\ UNCHANGED <<variant, buf_len, cs, dc, rst, mem, status, call, idx,
                   clrs, pos, trace, ncalls, last>>

(* fill_contiguous, lines 59-64: take the chunk buffer out of the handle,
   idx = 0, clrs = colors.into_iter() *)
TakeChunk ==
    /\ Running("take")
    /\ IF "chunk_buffer" \in present
       THEN /\ present' = present \ {"chunk_buffer"}
            /\ held' = held \cup {"chunk_buffer"}
            /\ idx' = 0
            /\ clrs' = Head(todo).m
            /\ pos' = 0
            /\ todo' = Tail(todo)
            /\ status' = status
       ELSE /\ status' = "panic_none"
            /\ todo' = <<>>
            /\ UNCHANGED <<present, held, idx, clrs, pos>>
    /\ UNCHANGED <<variant, buf_len, cs, dc, rst, tf, mem, call, trace, ncalls, fault, last>>

(* One iteration of `for _ in 0..(width * height)`: the flush test *)
ForStep ==
    /\ Running("for")
    /\ LET n == Head(todo).n IN
        todo' = IF n = 0
                THEN Tail(todo)
                ELSE loop_body(idx, buf_len) \o <<For(n - 1)>> \o Tail(todo)
    /\ UNCHANGED <<variant, buf_len, cs, dc, rst, present, tf, held, mem,
                   status, call, idx, clrs, pos, trace, ncalls, fault, last>>

ResetIndex ==
    /\ Running("reset_idx")
    /\ idx' = 0
    /\ todo' = Tail(todo)
    /\ UNCHANGED <<variant, buf_len, cs, dc, rst, present, tf, held, mem,
                   status, call, clrs, pos, trace, ncalls, fault, last>>

(* mutant: the index advances by one byte per pixel *)
next_idx_by_one(i) == i + 1

(* idx += 2 *)
next_idx(i) == i + 2

(* clrs.next().unwrap().to_be_bytes() written at idx, idx + 1; idx += 2 *)
WritePixel ==
    /\ Running("write")
    /\ IF ~HasNext(clrs, pos)
       THEN /\ status' = "panic_exhausted"
            /\ todo' = <<>>
            /\ UNCHANGED <<mem, idx, pos>>
       ELSE LET color_bytes == to_be_bytes(NextItem(clrs, pos)) IN
            IF idx + 2 > buf_len
            THEN /\ status' = "panic_bounds"
                 /\ todo' = <<>>
                 /\ pos' = pos + 1
                 /\ UNCHANGED <<mem, idx>>
            ELSE /\ mem' = [mem EXCEPT !.chunk_buffer =
                              [@ EXCEPT ![idx + 1] = color_bytes[1],
                                        ![idx + 2] = color_bytes[2]]]
                 /\ idx' = next_idx(idx)
                 /\ pos' = pos + 1
                 /\ todo' = Tail(todo)
                 /\ status' = status
    /\ UNCHANGED <<variant, buf_len, cs, dc, rst, present, tf, held, call,
                   clrs, trace, ncalls, fault, last>>

(* mutant: the final flush sends the buffer even when nothing was written *)
has_remaining_always(i) == i >= 0

(* `idx > 0`: bytes were written since the last flush *)
has_remaining(i) == i > 0

(* `if idx > 0 { chunk_buffer = self.send_data_chunk(chunk_buffer) }` *)
FinalFlush ==
    /\ Running("flush_if")
    /\ todo' = (IF has_remaining(idx) THEN send_data_chunk ELSE <<>>) \o Tail(todo)
    /\ UNCHANGED <<variant, buf_len, cs, dc, rst, present, tf, held, mem,
                   status, call, idx, clrs, pos, trace, ncalls, fault, last>>

(* self.chunk_buffer = Some(chunk_buffer) *)
PutChunk ==
    /\ Running("put")
    /\ present' = present \cup {"chunk_buffer"}
    /\ held' = held \ {"chunk_buffer"}
    /\ todo' = Tail(todo)
    /\ UNCHANGED <<variant, buf_len, cs, dc, rst, tf, mem, status, call,
                   idx, clrs, pos, trace, ncalls, fault, last>>

(* A line write of the synchronous driver: it succeeds, or the pin reports
   an error that `?` returns with the tag of the call site *)
TrySetPin ==
    /\ Running("try_pin")
    /\ LET st == Head(todo) IN
       \/ /\ cs'  = IF st.s = "cs"  THEN st.t ELSE cs
          /\ dc'  = IF st.s = "dc"  THEN st.t ELSE dc
          /\ rst' = IF st.s = "rst" THEN st.t ELSE rst
          /\ Log(Event("pin", st.s, st.t, "", 0, <<>>))
          /\ todo' = Tail(todo)
          /\ UNCHANGED <<status, fault>>
       \/ /\ fault' = st.m[1]
          /\ todo' = question_mark(Tail(todo))
          /\ status' = IF todo' = <<>> THEN "error" ELSE status
          /\ UNCHANGED <<cs, dc, rst, trace>>
    /\ UNCHANGED <<variant, buf_len, present, tf, held, mem, call, idx,
                   clrs, pos, ncalls, last>>

(* spi.write(bytes): it succeeds, or the bus reports an error that `?`
   returns as Error::Spi *)
SpiBusWrite ==
    /\ Running("spi_write")
    /\ \/ /\ Log(Event("write", "spi", dc, cs, 0, Head(todo).m))
          /\ todo' = Tail(todo)
          /\ UNCHANGED <<status, fault>>
       \/ /\ fault' = "Spi"
          /\ todo' = question_mark(Tail(todo))
          /\ status' = IF todo' = <<>> THEN "error" ELSE status
          /\ UNCHANGED trace
    /\ UNCHANGED <<variant, buf_len, cs, dc, rst, present, tf, held, mem,
                   call, idx, clrs, pos, ncalls, last>>

(* draw_iter: the call panics before it does anything *)
PanicUnimplemented ==
    /\ Running("unimplemented")
    /\ status' = "panic_unimplemented"
    /\ todo' = <<>>
    /\ UNCHANGED <<variant, buf_len, cs, dc, rst, present, tf, held, mem,
                   call, idx, clrs, pos, trace, ncalls, fault, last>>

Return ==
    /\ Running("ret")
    /\ status' = "returned"
    /\ todo' = <<>>
    /\ UNCHANGED <<variant, buf_len, cs, dc, rst, present, tf, held, mem,
                   call, idx, clrs, pos, trace, ncalls, fault, last>>

Steps ==
    \/ SetPin
    \/ DelayMs
    \/ StoreBytes
    \/ CheckedAddOverflow
    \/ TransferStart
    \/ TransferRelease
    \/ TakeChunk
    \/ ForStep
    \/ ResetIndex
    \/ WritePixel
    \/ FinalFlush
    \/ PutChunk
    \/ PanicUnimplemented
    \/ Return

----------------------------------------------------------------------------
(* Calls of the public operations *)

(* A handle can be used again after a call has returned, Ok or Err *)
CanCall(limit) == status \in {"idle", "returned", "error"} /\ ncalls < limit

BeginCallLen(op, area, colors, xs, xe, ys, ye, len, steps) ==
    /\ call' = [op |-> op, area |-> area, colors |-> colors,
                xs |-> xs, xe |-> xe, ys |-> ys, ye |-> ye, len |-> len]
    /\ todo' = steps \o <<Ret>>
    /\ status' = "running"
    /\ trace' = <<>>
    /\ ncalls' = ncalls + 1
    /\ fault' = ""
    /\ last' = [op |-> call.op, trace |-> trace]
    /\ UNCHANGED <<variant, buf_len, cs, dc, rst, present, tf, held, mem,
                   idx, clrs, pos>>

BeginCall(op, area, colors, xs, xe, ys, ye, steps) ==
    BeginCallLen(op, area, colors, xs, xe, ys, ye, 0, steps)

NoArea == Rect(0, 0, 0, 0)
NoColors == SeqSource(0)

(* mutant: init skips the hardware reset when the reset line is already
   high *)
CallInitResetOnce(limit) ==
    /\ CanCall(limit)
    /\ BeginCall("init", NoArea, NoColors, 0, 0, 0, 0,
                 IF rst = "high"
                 THEN SubSeq(init(variant), 5, Len(init(variant)))
                 ELSE init(variant))

CallInit(limit) ==
    /\ CanCall(limit)
    /\ BeginCall("init", NoArea, NoColors, 0, 0, 0, 0, init(variant))

CallSetSize(limit, XS, YS) ==
    /\ CanCall(limit)
    /\ \E xs \in XS, xe \in XS, ys \in YS, ye \in YS :
        BeginCall("set_size", NoArea, NoColors, xs, xe, ys, ye,
                  set_size(variant, xs, xe, ys, ye))

CallBeginDraw(limit) ==
    /\ CanCall(limit)
    /\ BeginCall("begin_draw", NoArea, NoColors, 0, 0, 0, 0, begin_draw(variant))

CallOff(limit) ==
    /\ CanCall(limit)
    /\ BeginCall("off", NoArea, NoColors, 0, 0, 0, 0, off(variant))

CallFillContiguous(limit, rects) ==
    /\ CanCall(limit)
    /\ variant = "inplace"
    /\ \E area \in rects :
        LET colors == SeqSource(area.w * area.h) IN
        BeginCall("fill_contiguous", area, colors, 0, 0, 0, 0,
                  fill_contiguous(area, colors))

(* fill_contiguous(area, colors) with an iterator of any length up to the
   size of the area *)
CallFillContiguousFrom(limit, rects) ==
    /\ CanCall(limit)
    /\ variant = "inplace"
    /\ \E area \in rects :
        \E n \in 0..(area.w * area.h) :
            LET colors == SeqSource(n) IN
            BeginCall("fill_contiguous", area, colors, 0, 0, 0, 0,
                      fill_contiguous(area, colors))

CallFillSolid(limit, rects, colours) ==
    /\ CanCall(limit)
    /\ variant = "inplace"
    /\ \E area \in rects, color \in colours :
        BeginCall("fill_solid", area, RepeatSource(color), 0, 0, 0, 0,
                  fill_solid(area, color))

CallClear(limit, colours) ==
    /\ CanCall(limit)
    /\ variant = "inplace"
    /\ \E color \in colours :
        BeginCall("clear", bounding_box, RepeatSource(color), 0, 0, 0, 0,
                  clear(color))

(* send_frame(buffer): the buffer is given by its length *)
CallSendFrame(limit, lens) ==
    /\ CanCall(limit)
    /\ \E n \in lens :
        BeginCallLen("send_frame", NoArea, NoColors, 0, 0, 0, 0, n,
                     send_frame(variant, n))

(* draw_entire_screen(buffer): the buffer is given by its length *)
CallDrawEntireScreen(limit, lens) ==
    /\ CanCall(limit)
    /\ \E n \in lens :
        BeginCallLen("draw_entire_screen", NoArea, NoColors, 0, 0, 0, 0, n,
                     draw_entire_screen(variant, n))

CallDrawColorEntireScreen(limit, colours) ==
    /\ CanCall(limit)
    /\ \E color \in colours :
        BeginCall("draw_color_entire_screen", NoArea, RepeatSource(color),
                  0, 0, 0, 0, draw_color_entire_screen(variant, color))

(* draw_iter(pixels): the pixel iterator is given by its length *)
CallDrawIter(limit, counts) ==
    /\ CanCall(limit)
    /\ variant = "inplace"
    /\ \E n \in counts :
        BeginCall("draw_iter", NoArea, SeqSource(n), 0, 0, 0, 0, draw_iter)

CallSpiInit(limit) ==
    /\ CanCall(limit)
    /\ BeginCall("spi_init", NoArea, NoColors, 0, 0, 0, 0, spi_init)

(* draw_screen(buffer): call.len is the length of the buffer *)
CallSpiDrawScreen(limit, buffers) ==
    /\ CanCall(limit)
    /\ \E buffer \in buffers :
        BeginCallLen("spi_draw_screen", NoArea, NoColors, 0, 0, 0, 0,
                     Len(buffer), spi_draw_screen(buffer))

CallSt7789v2DrawScreen(limit, buffers) ==
    /\ CanCall(limit)
    /\ \E buffer \in buffers :
        BeginCallLen("st7789v2_draw_screen", NoArea, NoColors, 0, 0, 0, 0,
                     Len(buffer), st7789v2_draw_screen(buffer))

(* send_command(cmd): call.xs is the opcode *)
CallSpiSendCommand(limit, cmds) ==
    /\ CanCall(limit)
    /\ \E cmd \in cmds :
        BeginCall("spi_send_command", NoArea, NoColors, cmd, 0, 0, 0,
                  spi_send_command(cmd))

CallSpiSendData(limit, buffers) ==
    /\ CanCall(limit)
    /\ \E data \in buffers :
        BeginCallLen("spi_send_data", NoArea, NoColors, 0, 0, 0, 0,
                     Len(data), spi_send_data(data))

(* Inputs *)
SolidColours == {63519}
SpiBuffers == {<<>>, <<171, 205>>}
SpiCommands == {CmdRAMWR, CmdDisplayOff}
FrameLens == {0, ChunkSize + 1}
PixelCounts == {0, 2}

AllRects == {Rect(x, y, w, h) : x \in (0 - 1)..W, y \in (0 - 1)..H,
                                w \in 0..(W + 1), h \in 0..(H + 1)}

SeqRects == {Rect(0, 0, W, H), Rect(0, 0, 2, 1), Rect(0 - 1, 0, 2, 1),
             Rect(0, 0, 0, 1), Rect(W, 0, 1, 1)}

SeqXS == {W - 1}
SeqYS == {0, U16 - 1}

WideXS == {0, 1, 239, 255, 256, 65535}
WideYS == {0, 1, 235, 236, 279, 65515, 65516, 65535}

(* Any sequence of at most MaxCalls public operations on one handle *)
Next ==
    \/ CallInit(MaxCalls)
    \/ CallSetSize(MaxCalls, SeqXS, SeqYS)
    \/ CallBeginDraw(MaxCalls)
    \/ CallOff(MaxCalls)
    \/ CallFillContiguous(MaxCalls, SeqRects)
    \/ CallFillSolid(MaxCalls, SeqRects, SolidColours)
    \/ CallClear(MaxCalls, SolidColours)
    \/ CallSendFrame(MaxCalls, FrameLens)
    \/ CallDrawEntireScreen(MaxCalls, FrameLens)
    \/ CallDrawColorEntireScreen(MaxCalls, SolidColours)
    \/ CallDrawIter(MaxCalls, PixelCounts)
    \/ Steps

Spec == Init /\ [][Next]_vars

(* One fill call on a fresh handle, for every rectangle around the panel *)
InitFill == \E c \in 2..MaxBufLen : new("inplace", c)

NextFill ==
    \/ CallFillContiguous(1, AllRects)
    \/ CallFillSolid(1, AllRects, SolidColours)
    \/ CallClear(1, SolidColours)
    \/ SetPin \/ DelayMs \/ StoreBytes \/ CheckedAddOverflow
    \/ TransferStart \/ TransferRelease
    \/ TakeChunk \/ ForStep \/ ResetIndex \/ WritePixel \/ FinalFlush
    \/ PutChunk \/ Return

SpecFill == InitFill /\ [][NextFill]_vars

(* One set_size call on a fresh handle, over 16-bit bounds *)
NextWindow ==
    \/ CallSetSize(1, WideXS, WideYS)
    \/ SetPin \/ DelayMs \/ StoreBytes \/ CheckedAddOverflow
    \/ TransferStart \/ TransferRelease \/ Return

SpecWindow == Init /\ [][NextWindow]_vars

(* Any sequence of at most MaxCalls operations on one handle of the
   synchronous driver, each line and bus write failing or not *)
InitSync == new("sync", 0)

NextSync ==
    \/ CallSpiInit(MaxCalls)
    \/ CallSpiDrawScreen(MaxCalls, SpiBuffers)
    \/ CallSt7789v2DrawScreen(MaxCalls, SpiBuffers)
    \/ CallSpiSendCommand(MaxCalls, SpiCommands)
    \/ CallSpiSendData(MaxCalls, SpiBuffers)
    \/ TrySetPin \/ SpiBusWrite \/ DelayMs \/ Return

SpecSync == InitSync /\ [][NextSync]_vars

(* One call of init, set_size or a fill on a fresh handle.  The processor
   always executes the next statement of a running call, and every started
   transfer completes: wait() returns. *)
ProgramSteps ==
    \/ SetPin \/ DelayMs \/ StoreBytes \/ CheckedAddOverflow
    \/ TransferStart
    \/ TakeChunk \/ ForStep \/ ResetIndex \/ WritePixel \/ FinalFlush
    \/ PutChunk \/ Return

NextLive ==
    \/ CallInit(1)
    \/ CallSetSize(1, SeqXS, SeqYS)
    \/ CallFillContiguous(1, SeqRects)
    \/ CallFillSolid(1, SeqRects, SolidColours)
    \/ ProgramSteps
    \/ TransferRelease

(* One call of init, set_size or a fill on a fresh handle, up to
   MaxPinFailures of its line writes failing *)
PinRects == {Rect(0, 0, W, H), Rect(0 - 1, 0, 2, 1), Rect(W, 0, 1, 1)}

NextPins ==
    \/ CallInit(1)
    \/ CallSetSize(1, SeqXS, SeqYS)
    \/ CallFillContiguous(1, PinRects)
    \/ SetPinFails
    \/ ProgramSteps
    \/ TransferRelease

(* One send_frame or draw_entire_screen call on a fresh handle, for buffer
   lengths around the chunk size *)
WideFrameLens == {0, 1, ChunkSize - 1, ChunkSize, ChunkSize + 1,
                  2 * ChunkSize, 2 * ChunkSize + 1}

NextFrame ==
    \/ CallSendFrame(1, WideFrameLens)
    \/ CallDrawEntireScreen(1, WideFrameLens)
    \/ SetPin \/ DelayMs \/ StoreBytes
    \/ TransferStart \/ TransferRelease
    \/ Return

SpecFrame == Init /\ [][NextFrame]_vars

(* One fill_contiguous call on a fresh handle whose pixel source may run
   out before the rectangle is filled *)
ShortRects == {Rect(0, 0, W, H), Rect(0, 0, 2, 1), Rect(1, 0, W, H),
               Rect(0 - 1, 0, 2, 1), Rect(W, 0, 1, 1)}

NextShort ==
    \/ CallFillContiguousFrom(1, ShortRects)
    \/ ProgramSteps
    \/ TransferRelease

SpecShort == InitFill /\ [][NextShort]_vars

SpecPins == Init /\ [][NextPins]_vars

SpecLive ==
    Init /\ [][NextLive]_vars /\ WF_vars(ProgramSteps) /\ WF_vars(TransferRelease)

----------------------------------------------------------------------------
(* Observations on the trace of the current call *)

IsXfer(e) == e.k = "xfer"
IsBurst(e) == e.k = "xfer" /\ e.s = "chunk_buffer"
IsCaset(e) == e.k = "xfer" /\ e.s = "caset_buf"
IsRaset(e) == e.k = "xfer" /\ e.s = "raset_buf"

Xfers == SelectSeq(trace, IsXfer)
Bursts == SelectSeq(trace, IsBurst)
CasetPayloads == SelectSeq(trace, IsCaset)
RasetPayloads == SelectSeq(trace, IsRaset)

IsCmd(e, cmd) == e.k = "xfer" /\ e.s = "cmd_buf" /\ e.bs = <<cmd>>

RECURSIVE SumLen(_)
SumLen(q) == IF q = <<>> THEN 0 ELSE Len(Head(q).bs) + SumLen(Tail(q))

Ceil(a, b) == (a + b - 1) \div b

IsFill == call.op \in {"fill_contiguous", "fill_solid", "clear"}
Returned == status = "returned"
Ended == status \notin {"idle", "running"}

FullyInside(r) ==
    r.x >= 0 /\ r.y >= 0 /\ r.x + r.w <= W /\ r.y + r.h <= H

(* The geometric intersection of the requested area with the panel *)
ClipX0 == Max(call.area.x, 0)
ClipY0 == Max(call.area.y, 0)
ClipX1 == Min(call.area.x + call.area.w - 1, W - 1)
ClipY1 == Min(call.area.y + call.area.h - 1, H - 1)
ClipEmpty == ClipX0 > ClipX1 \/ ClipY0 > ClipY1
ClipCount == IF ClipEmpty THEN 0
             ELSE (ClipX1 - ClipX0 + 1) * (ClipY1 - ClipY0 + 1)

(* Payload bytes of the fill in progress: 2 per pixel of the clipped area *)
Count == 2 * ClipCount

----------------------------------------------------------------------------
(* Claims *)

(* C1: for a rectangle fully inside the bounding box, one fill call emits,
   in this order, one CASET and one RASET window set, one write-RAM command
   (0x2C) and then payload bursts whose lengths sum to width x height x 2
   bytes; no payload burst precedes the write-RAM command. *)
C1_WindowRamwrThenExactPayload ==
    (Returned /\ IsFill /\ FullyInside(call.area)) =>
        /\ Len(Xfers) >= 5
        /\ IsCmd(Xfers[1], CmdCASET) /\ IsCaset(Xfers[2])
        /\ IsCmd(Xfers[3], CmdRASET) /\ IsRaset(Xfers[4])
        /\ IsCmd(Xfers[5], CmdRAMWR)
        /\ \A i \in 6..Len(Xfers) : IsBurst(Xfers[i])
        /\ SumLen(Bursts) = call.area.w * call.area.h * 2

(* C2: a fill of Count payload bytes through a chunk buffer of capacity C
   performs ceil(Count / C) bursts, each of at most C bytes, the last one of
   Count mod C bytes (C when Count is a multiple of C). *)
C2_BurstPartition ==
    (Returned /\ IsFill) =>
        /\ Len(Bursts) = Ceil(Count, buf_len)
        /\ \A i \in 1..Len(Bursts) : Len(Bursts[i].bs) <= buf_len
        /\ Count > 0 =>
              Len(Bursts[Len(Bursts)].bs) =
                  (IF Count % buf_len = 0 THEN buf_len ELSE Count % buf_len)

(* C3: a fill whose payload is exactly C bytes performs exactly one burst,
   which carries the C payload bytes; no trailing empty burst follows. *)
C3_ExactFitOneBurst ==
    (Returned /\ IsFill /\ Count = buf_len) =>
        /\ Len(Bursts) = 1
        /\ Len(Bursts[1].bs) = buf_len

C3_Witness ==
    /\ Returned /\ IsFill /\ Count = buf_len /\ buf_len = 4
    /\ Len(Bursts) = 1
    /\ pos = 2

(* C4: a fill of C + 1 payload bytes performs exactly two bursts, the second
   of length 1. *)
C4_OneOverTwoBursts ==
    (Returned /\ IsFill /\ Count = buf_len + 1) =>
        /\ Len(Bursts) = 2
        /\ Len(Bursts[2].bs) = 1

(* C5: whenever a call has returned, after any sequence of operations, the
   transmitter, the stream and the chunk buffer (and the other staging
   buffers) are present in the handle, nothing is in flight, and no call
   fails for want of a resource of the handle. *)
C5_ResourcesBackOnReturn ==
    /\ Returned => (ResOf(variant) \subseteq present /\ tf = {} /\ held = {})
    /\ status # "panic_none"

C5_Witness ==
    /\ Returned /\ IsFill /\ ncalls = 2
    /\ Len(Bursts) >= 2
    /\ {"tx", "st", "chunk_buffer"} \subseteq present

(* C6: each resource of the handle is at every moment either present in the
   handle or owned by the in-flight transfer, never both and never
   neither. *)
C6_ExactlyOnePlace ==
    \A r \in ResOf(variant) : (r \in present) # (r \in tf)

(* C6, first half: the handle holds no copy of a resource that the
   in-flight transfer owns. *)
C6_NeverBoth ==
    \A r \in ResOf(variant) : ~(r \in present /\ r \in tf)

(* The window a CASET / RASET payload denotes: the bounds it decodes to *)
Decode16(bs, i) == 256 * bs[i] + bs[i + 1]
IsBytes(bs) == \A i \in 1..Len(bs) : bs[i] \in 0..255

WindowSent == Len(CasetPayloads) = 1 /\ Len(RasetPayloads) = 1
SentXS == Decode16(CasetPayloads[1].bs, 1)
SentXE == Decode16(CasetPayloads[1].bs, 3)
SentYS == Decode16(RasetPayloads[1].bs, 1)
SentYE == Decode16(RasetPayloads[1].bs, 3)
SentEmpty == SentXS > SentXE \/ SentYS > SentYE

(* C7: for a rectangle partially or fully outside the bounding box the fill
   call completes and the window it transmits is the intersection of the
   rectangle with the bounding box: the same columns, and the same rows
   shifted by OFFSET (an empty intersection is matched by a window that
   denotes no position). *)
C7_WindowIsIntersection ==
    (Ended /\ IsFill /\ ~FullyInside(call.area)) =>
        /\ Returned
        /\ WindowSent
        /\ IF ClipEmpty
           THEN SentEmpty
           ELSE /\ SentXS = ClipX0 /\ SentXE = ClipX1
                /\ SentYS = ClipY0 + OFFSET /\ SentYE = ClipY1 + OFFSET

(* The k-th pixel (0-based, row-major in the transmitted window) as it is
   laid out in the bursts: each burst starts a fresh buffer that holds
   buf_len \div 2 whole pixels. *)
PixelsPerChunk == buf_len \div 2
TransmittedPixel(k) ==
    LET b == Bursts[(k \div PixelsPerChunk) + 1].bs
        o == 2 * (k % PixelsPerChunk)
    IN  256 * b[o + 1] + b[o + 2]

(* Row-major index, in the requested rectangle, of the k-th position of
   the clipped rectangle *)
IndexInArea(k) ==
    LET cw == ClipX1 - ClipX0 + 1
        row == ClipY0 + (k \div cw)
        col == ClipX0 + (k % cw)
    IN  (row - call.area.y) * call.area.w + (col - call.area.x)

(* C8: when the fill clips the rectangle, the source is consumed along the
   row-major traversal of the unclipped rectangle: the items of the
   clipped-away positions are consumed and dropped, and the pixel
   transmitted for a position of the intersection is the source item at the
   position's row-major index in the requested rectangle. *)
C8_ClippedItemsSkipped ==
    (Returned /\ call.op = "fill_contiguous" /\ ~FullyInside(call.area)
       /\ ~ClipEmpty) =>
        /\ pos = call.area.w * call.area.h
        /\ \A k \in 0..(ClipCount - 1) :
              TransmittedPixel(k) = ColourOf(IndexInArea(k))

(* C9: set_size(xs, xe, ys, ye) transmits one CASET payload, the big-endian
   16-bit encodings of xs and xe with no offset; for xs = 0, xe = 239 it is
   00 00 00 EF. *)
C9_CasetBigEndian ==
    (call.op = "set_size") =>
        /\ Len(CasetPayloads) <= 1
        /\ Returned => Len(CasetPayloads) = 1
        /\ \A i \in 1..Len(CasetPayloads) :
              LET bs == CasetPayloads[i].bs IN
              /\ Len(bs) = 4 /\ IsBytes(bs)
              /\ Decode16(bs, 1) = call.xs
              /\ Decode16(bs, 3) = call.xe
              /\ (call.xs = 0 /\ call.xe = 239) => bs = <<0, 0, 0, 239>>

C9_Witness ==
    /\ Returned /\ call.op = "set_size"
    /\ call.xs = 0 /\ call.xe = 239
    /\ Len(CasetPayloads) = 1
    /\ CasetPayloads[1].bs = <<0, 0, 0, 239>>

RasetIs(ys, ye) ==
    /\ Len(RasetPayloads) = 1
    /\ LET bs == RasetPayloads[1].bs IN
        /\ Len(bs) = 4 /\ IsBytes(bs)
        /\ Decode16(bs, 1) = ys
        /\ Decode16(bs, 3) = ye

(* C10 as stated: every set_size call with ye + OFFSET < 2^16 transmits the
   RASET payload that encodes ys + OFFSET and ye + OFFSET. *)
C10_RasetOffsetIfEndFits ==
    (Ended /\ call.op = "set_size" /\ call.ye + OFFSET < U16) =>
        /\ Returned
        /\ RasetIs(call.ys + OFFSET, call.ye + OFFSET)

(* C10 amended: every set_size call with ys + OFFSET < 2^16 and
   ye + OFFSET < 2^16 returns and has transmitted one RASET payload, the
   big-endian 16-bit encodings of ys + OFFSET and ye + OFFSET; with
   OFFSET = 20 and rows 0..279 it is 00 14 01 2B. *)
C10_RasetOffsetIfBothFit ==
    (Ended /\ call.op = "set_size"
       /\ call.ys + OFFSET < U16 /\ call.ye + OFFSET < U16) =>
        /\ Returned
        /\ RasetIs(call.ys + OFFSET, call.ye + OFFSET)
        /\ (call.ys = 0 /\ call.ye = 279 /\ OFFSET = 20) =>
              RasetPayloads[1].bs = <<0, 20, 1, 43>>

C10_Witness ==
    /\ Returned /\ call.op = "set_size"
    /\ call.ys = 0 /\ call.ye = 279
    /\ Len(RasetPayloads) = 1
    /\ RasetPayloads[1].bs = <<0, 20, 1, 43>>

(* C11: every address window sent by a fill call (whatever the rectangle,
   an empty intersection included) and by draw_color_entire_screen lies
   within the panel: x_start <= x_end < W for the columns and, for the rows
   before the offset is added, 0 <= y_start <= y_end < H. *)
C11_WindowWithinPanel ==
    (IsFill \/ call.op = "draw_color_entire_screen") =>
        /\ \A i \in 1..Len(CasetPayloads) :
              LET bs == CasetPayloads[i].bs IN
              Decode16(bs, 1) <= Decode16(bs, 3) /\ Decode16(bs, 3) < W
        /\ \A i \in 1..Len(RasetPayloads) :
              LET bs == RasetPayloads[i].bs IN
              /\ OFFSET <= Decode16(bs, 1)
              /\ Decode16(bs, 1) <= Decode16(bs, 3)
              /\ Decode16(bs, 3) < H + OFFSET

(* C12: init run twice in sequence on the same handle emits the same
   sequence both times: the same bus bytes, the same writes of the reset,
   data/command and chip-select lines and the same delays, in the same
   order. *)
C12_InitTwiceSameEmission ==
    (Returned /\ call.op = "init" /\ last.op = "init") =>
        trace = last.trace

C12_Witness ==
    /\ Returned /\ call.op = "init" /\ last.op = "init"
    /\ ncalls = 2
    /\ Len(Xfers) = 8
    /\ Len(last.trace) > 8

(* C13: the driver writes a pixel into the chunk buffer only while the
   running fill holds the buffer and no transfer is in flight: every write
   happens before a burst is started or after that burst has completed and
   given the buffer back; while a transfer owns the buffer its contents do
   not change. *)
C13_NoWriteWhileInFlight ==
    /\ [](Running("write") =>
            ("chunk_buffer" \in held /\ "chunk_buffer" \notin tf /\ tf = {}))
    /\ [][(mem.chunk_buffer # mem'.chunk_buffer) =>
            (Running("write") /\ "chunk_buffer" \in held /\ tf = {})]_vars

C13_Witness ==
    /\ Running("write") /\ IsFill
    /\ Len(Bursts) = 1
    /\ "chunk_buffer" \in held /\ tf = {}

(* Positions of the payload bursts in the trace of the current call *)
BurstAt == {i \in 1..Len(trace) : IsBurst(trace[i])}
FirstBurst == CHOOSE i \in BurstAt : \A j \in BurstAt : i <= j
LastBurst == CHOOSE i \in BurstAt : \A j \in BurstAt : j <= i
IsPinWrite(e, pin, level) == e.k = "pin" /\ e.s = pin /\ e.t = level
IsPinOf(e, pin) == e.k = "pin" /\ e.s = pin

(* C14: within one fill call chip select and data/command are driven once
   before the first payload burst and chip select is released once after
   the last: every burst goes out with CS low and DC high, between the
   first and the last burst CS is never driven high and DC never low, and
   after the last burst CS is driven exactly once, to high. *)
C14_SelectedAcrossBursts ==
    (IsFill /\ BurstAt # {}) =>
        /\ \A i \in BurstAt : trace[i].c = "low" /\ trace[i].t = "high"
        /\ \A i \in FirstBurst..LastBurst :
              /\ ~IsPinWrite(trace[i], "cs", "high")
              /\ ~IsPinWrite(trace[i], "dc", "low")
              /\ ~IsPinOf(trace[i], "cs")
        /\ \A i \in (LastBurst + 1)..Len(trace) :
              /\ ~IsPinWrite(trace[i], "cs", "low")
              /\ ~IsPinOf(trace[i], "dc")
        /\ Returned =>
              Cardinality({i \in (LastBurst + 1)..Len(trace) :
                              IsPinWrite(trace[i], "cs", "high")}) = 1

C14_Witness ==
    /\ Returned /\ IsFill
    /\ Len(Bursts) = 3
    /\ cs = "high" /\ dc = "high"

(* The chip-select writes and the bus transfers of the current call *)
IsCsOrXfer(e) == IsXfer(e) \/ IsPinOf(e, "cs")
CsAndBus == SelectSeq(trace, IsCsOrXfer)

(* The i-th chip-select write or transfer of a window set *)
WindowStep(i, e) ==
    CASE i = 1 -> IsPinWrite(e, "cs", "low")
      [] i = 2 -> IsCmd(e, CmdCASET) /\ e.c = "low"
      [] i = 3 -> IsCaset(e) /\ Len(e.bs) = 4 /\ e.c = "low"
      [] i = 4 -> IsPinWrite(e, "cs", "high")
      [] i = 5 -> IsPinWrite(e, "cs", "low")
      [] i = 6 -> IsCmd(e, CmdRASET) /\ e.c = "low"
      [] i = 7 -> IsRaset(e) /\ Len(e.bs) = 4 /\ e.c = "low"
      [] i = 8 -> IsPinWrite(e, "cs", "high")
      [] OTHER -> FALSE

(* C15: set_size drives chip select and the bus in exactly this order:
   CS low, the CASET command (0x2A), the 4 CASET data bytes, CS high; CS
   low, the RASET command (0x2B), the 4 RASET data bytes, CS high.  CS is
   low for each command and for its data and is not driven between them;
   CASET precedes RASET. *)
C15_WindowSequence ==
    (call.op = "set_size") =>
        /\ \A i \in 1..Len(CsAndBus) : WindowStep(i, CsAndBus[i])
        /\ Returned => Len(CsAndBus) = 8

C15_Witness ==
    /\ Returned /\ call.op = "set_size"
    /\ Len(CsAndBus) = 8
    /\ call.xs = 1 /\ call.xe = 239 /\ call.ys = 1 /\ call.ye = 279
    /\ cs = "high"

(* The reset writes, the delays and the bus transfers of the current call *)
IsRstDelayOrXfer(e) == IsXfer(e) \/ IsPinOf(e, "rst") \/ e.k = "delay"
RstDelaysAndBus == SelectSeq(trace, IsRstDelayOrXfer)

Expect(k, l, n) == [k |-> k, l |-> l, n |-> n]

(* The order of init: hardware reset, then each command with its data byte
   and the settle delay that follows it.  A command that has a data byte is
   followed by a 1 ms wait before the data byte. *)
InitOrder ==
    <<Expect("rst", "low", 0), Expect("delay", "", 120),
      Expect("rst", "high", 0), Expect("delay", "", 150),
      Expect("cmd", "", CmdSoftwareReset), Expect("delay", "", 150),
      Expect("cmd", "", CmdSleepOut), Expect("delay", "", 120),
      Expect("cmd", "", CmdSetColorMode), Expect("delay", "", 1),
      Expect("data", "", RGB565), Expect("delay", "", 10),
      Expect("cmd", "", CmdMemoryDataAccessControl), Expect("delay", "", 1),
      Expect("data", "", 0), Expect("delay", "", 10),
      Expect("cmd", "", CmdInversionOn), Expect("delay", "", 1),
      Expect("cmd", "", CmdDisplayOn), Expect("delay", "", 50)>>

IsExpected(e, x) ==
    CASE x.k = "rst"   -> IsPinWrite(e, "rst", x.l)
      [] x.k = "delay" -> e.k = "delay" /\ e.n = x.n
      [] x.k = "cmd"   -> IsCmd(e, x.n)
      [] x.k = "data"  -> IsXfer(e) /\ e.s = "data_buf" /\ e.bs = <<x.n>>

(* C16: init emits its steps in this fixed order: reset low, 120 ms, reset
   high, 150 ms, then 0x01 (settle 150 ms), 0x11 (120 ms), 0x3A with data
   0x55 (10 ms), 0x36 with data 0x00 (10 ms), 0x21 (1 ms), 0x29 (50 ms).
   No command byte goes out before reset has been raised and 150 ms have
   elapsed, and display-on is the last command. *)
C16_InitOrder ==
    (call.op = "init") =>
        /\ Len(RstDelaysAndBus) <= Len(InitOrder)
        /\ \A i \in 1..Len(RstDelaysAndBus) :
              IsExpected(RstDelaysAndBus[i], InitOrder[i])
        /\ Returned => Len(RstDelaysAndBus) = Len(InitOrder)

C16_Witness ==
    /\ Returned /\ call.op = "init" /\ ncalls = 1
    /\ Len(RstDelaysAndBus) = 20
    /\ IsCmd(Xfers[Len(Xfers)], CmdDisplayOn)
    /\ rst = "high"

(* The opcodes the driver sends *)
CommandOpcodes ==
    {CmdSoftwareReset, CmdSleepOut, CmdSetColorMode,
     CmdMemoryDataAccessControl, CmdDisplayOn, CmdDisplayOff, CmdCASET,
     CmdRASET, CmdRAMWR, CmdInversionOn}

IsCommandXfer(e) ==
    IsXfer(e) /\ e.s = "cmd_buf" /\ Len(e.bs) = 1 /\ e.bs[1] \in CommandOpcodes

(* C17: in any sequence of operations the data/command line is low while a
   command byte is transmitted and high while a data byte is: every
   transfer started with the line low is a command opcode, and every
   parameter or pixel transfer is started with the line high. *)
C17_DcMatchesByteKind ==
    \A i \in 1..Len(trace) :
        IsXfer(trace[i]) =>
            /\ (trace[i].s = "cmd_buf") => trace[i].t = "low"
            /\ (trace[i].s # "cmd_buf") => trace[i].t = "high"
            /\ (trace[i].t = "low") => IsCommandXfer(trace[i])

C17_Witness ==
    /\ Returned /\ call.op = "send_frame" /\ last.op = "off"
    /\ Len(Xfers) = 2
    /\ \A i \in 1..2 : Xfers[i].s = "frame" /\ Xfers[i].t = "high"
    /\ \E i \in 1..Len(last.trace) : IsCommandXfer(last.trace[i])

(* C18: every draw_iter call of the DMA driver, whatever its pixel
   sequence (the empty one included), fails at once with the unimplemented
   panic: it never returns, transmits nothing and changes no line and no
   staging buffer. *)
C18_DrawIterUnimplemented ==
    /\ [](call.op = "draw_iter" =>
            /\ status \in {"running", "panic_unimplemented"}
            /\ trace = <<>>
            /\ tf = {})
    /\ [][(call'.op = "draw_iter") =>
            UNCHANGED <<cs, dc, rst, mem, present, tf, held>>]_vars

C18_Witness ==
    /\ status = "panic_unimplemented" /\ call.op = "draw_iter"
    /\ call.colors.len = 0
    /\ last.op = "fill_solid" /\ last.trace # <<>>
    /\ trace = <<>>

(* The bytes init puts on the bus, in order *)
InitBytes ==
    <<CmdSoftwareReset, CmdSleepOut, CmdSetColorMode, RGB565,
      CmdMemoryDataAccessControl, 0, CmdInversionOn, CmdDisplayOn>>

(* C19: a transfer error is never propagated and never aborts: a call in
   which a transfer reported an error goes on to its return with the
   stream, the transmitter and the buffers back in the handle, and init
   puts the same full byte sequence on the bus whether or not a transfer
   reported an error. *)
C19_TransferErrorIgnored ==
    /\ (fault = "transfer") =>
            /\ status = "running" => todo # <<>>
            /\ Returned => (ResOf(variant) \subseteq present /\ tf = {})
    /\ (Returned /\ call.op = "init") =>
            /\ Len(Xfers) = Len(InitBytes)
            /\ \A i \in 1..Len(Xfers) : Xfers[i].bs = <<InitBytes[i]>>

C19_Witness ==
    /\ Returned /\ call.op = "init" /\ fault = "transfer"
    /\ Len(Xfers) = Len(InitBytes)
    /\ {"st", "tx", "cmd_buf", "data_buf"} \subseteq present

(* The Error variant that belongs to a step of the synchronous driver *)
ErrorTags == {"Spi", "CS", "DC", "RST"}
TagOf(st) ==
    CASE st.k = "spi_write" -> "Spi"
      [] st.k = "try_pin" /\ st.s = "cs"  -> "CS"
      [] st.k = "try_pin" /\ st.s = "dc"  -> "DC"
      [] st.k = "try_pin" /\ st.s = "rst" -> "RST"
      [] OTHER -> ""

(* C20: in the synchronous driver the first bus or line error of init,
   draw_screen, send_command or send_data is returned, tagged by its origin
   (Spi, CS, DC or RST), and ends the call at once: the failing step writes
   nothing, and after it the call performs no bus write, no line write and
   no delay, and repeats nothing. *)
C20_FirstErrorReturned ==
    /\ [](fault # "" =>
            (status = "error" /\ todo = <<>> /\ fault \in ErrorTags))
    /\ [][(fault = "" /\ fault' # "") =>
            /\ fault' = TagOf(Head(todo))
            /\ UNCHANGED <<trace, cs, dc, rst>>]_vars
    /\ [][(fault # "" /\ fault' = fault /\ ncalls' = ncalls) =>
            UNCHANGED <<trace, cs, dc, rst, status>>]_vars

C20_Witness ==
    /\ status = "error" /\ fault = "Spi" /\ call.op = "spi_init"
    /\ Len(trace) = 11
    /\ IsPinWrite(trace[Len(trace)], "cs", "low")
    /\ \E i \in 1..Len(trace) : trace[i].k = "write"

(* All payload bytes of the bursts of the current call, in order *)
RECURSIVE ConcatPayloads(_)
ConcatPayloads(q) ==
    IF q = <<>> THEN <<>> ELSE Head(q).bs \o ConcatPayloads(Tail(q))

Payload == ConcatPayloads(Bursts)

(* C21: fill_solid is fill_contiguous with a source that repeats the colour
   forever, and clear is fill_solid over the bounding box: a clear call
   transmits the window columns 0..W-1, rows OFFSET..OFFSET+H-1 and then
   W x H x 2 payload bytes, the big-endian bytes of the colour repeated. *)
C21_ClearWholePanel ==
    /\ (call.op \in {"fill_solid", "clear"} /\ status = "running"
          /\ "chunk_buffer" \in held) =>
            clrs = RepeatSource(call.colors.color)
    /\ (Returned /\ call.op = "clear") =>
            /\ WindowSent
            /\ SentXS = 0 /\ SentXE = W - 1
            /\ SentYS = OFFSET /\ SentYE = OFFSET + H - 1
            /\ Len(Payload) = W * H * 2
            /\ \A i \in 1..Len(Payload) :
                  Payload[i] = to_be_bytes(call.colors.color)[2 - (i % 2)]

(* C22: a bus operation blocks until the transfer has completed: while a
   transfer is in flight the only thing the call can do is see it complete
   (no timeout, no cancellation, no later step), and if every started
   transfer completes, a running init, set_size or fill call eventually
   returns. *)
C22_BlocksThenReturns ==
    /\ [](tf # {} => (status = "running" /\ Running("release")))
    /\ [][tf # {} => tf' = {}]_vars
    /\ (status = "running") ~> Returned

(* C23: in init the colour-mode step and the memory-access-control step
   send the command byte and its data byte within one chip-select
   assertion: chip select is not driven high between a command and the
   data byte that follows it, and is released only after the settle
   delay. *)
C23_InitDataUnderSameSelect ==
    (call.op = "init") =>
        \A j \in 1..Len(trace) :
            (IsXfer(trace[j]) /\ trace[j].s = "data_buf") =>
                \A k \in 1..(j - 1) :
                    IsPinWrite(trace[k], "cs", "high") =>
                        \E m \in (k + 1)..(j - 1) : IsXfer(trace[m])

(* A transfer made by send_command or send_data_u8 *)
IsPrimitiveXfer(e) == IsXfer(e) /\ e.s \in {"cmd_buf", "data_buf"}

(* C24: send_command and send_data_u8 leave chip select as they found it:
   the only line they drive is data/command, the level of chip select when
   they return is the level at entry, and what follows the byte is the
   caller's delay, not a chip-select write; so a chip select asserted by
   the caller stays low across the command, its delay and the data. *)
C24_PrimitivesKeepSelect ==
    \A i \in 1..Len(trace) :
        IsPrimitiveXfer(trace[i]) =>
            /\ i > 1 /\ IsPinOf(trace[i - 1], "dc")
            /\ (i < Len(trace)) => trace[i + 1].k = "delay"
            /\ (i = Len(trace)) => cs = trace[i].c

C24_Witness ==
    /\ Returned /\ call.op = "set_size" /\ last.op = "begin_draw"
    /\ Len(Xfers) = 4
    /\ \A i \in 1..4 : Xfers[i].c = "low"
    /\ IsPrimitiveXfer(Xfers[1]) /\ IsPrimitiveXfer(Xfers[3])

(* The bus transfers and the delays of the current call *)
IsBusOrDelay(e) == IsXfer(e) \/ e.k = "delay"
BusAndDelays == SelectSeq(trace, IsBusOrDelay)
IsDelayOf(e, n) == e.k = "delay" /\ e.n = n

IsNotRst(x) == x.k # "rst"
InitBusOrder == SelectSeq(InitOrder, IsNotRst)

(* q starts with the transfers and delays of a window set for these column
   bounds and these row bounds (offset included) *)
WindowBusIs(q, xs, xe, ys, ye) ==
    /\ Len(q) >= 8
    /\ IsCmd(q[1], CmdCASET) /\ IsDelayOf(q[2], 1)
    /\ IsCaset(q[3]) /\ Decode16(q[3].bs, 1) = xs /\ Decode16(q[3].bs, 3) = xe
    /\ IsDelayOf(q[4], 1)
    /\ IsCmd(q[5], CmdRASET) /\ IsDelayOf(q[6], 1)
    /\ IsRaset(q[7]) /\ Decode16(q[7].bs, 1) = ys /\ Decode16(q[7].bs, 3) = ye
    /\ IsDelayOf(q[8], 1)

(* The bounds the current call hands to the window set *)
WindowArgs ==
    IF call.op = "set_size"
    THEN [xs |-> call.xs, xe |-> call.xe, ys |-> call.ys, ye |-> call.ye]
    ELSE LET d == intersection(call.area, bounding_box) IN
         [xs |-> d.x % U16, xe |-> (d.x + d.w - 1) % U16,
          ys |-> d.y % U16, ye |-> (d.y + d.h - 1) % U16]

RowsOverflow == WindowArgs.ys + OFFSET >= U16 \/ WindowArgs.ye + OFFSET >= U16

WindowBusAsCalled ==
    WindowBusIs(BusAndDelays, WindowArgs.xs, WindowArgs.xe,
                (WindowArgs.ys + OFFSET) % U16, (WindowArgs.ye + OFFSET) % U16)

(* C25: a failure to drive the reset, data/command or chip-select line is
   ignored: whatever line writes fail, init, set_size and a fill issue the
   transfers and delays they issue when none fails (the sequence is a
   function of the arguments alone), and the call ends as it does when
   none fails: it returns, unless the row bounds overflow. *)
C25_LineFailuresIgnored ==
    /\ Ended => (Returned \/ (status = "panic_overflow" /\ RowsOverflow))
    /\ (Returned /\ call.op = "init") =>
            /\ Len(BusAndDelays) = Len(InitBusOrder)
            /\ \A i \in 1..Len(BusAndDelays) :
                  IsExpected(BusAndDelays[i], InitBusOrder[i])
    /\ (Returned /\ call.op = "set_size") =>
            (WindowBusAsCalled /\ Len(BusAndDelays) = 8)
    /\ (Returned /\ IsFill) =>
            /\ WindowBusAsCalled
            /\ Len(BusAndDelays) = 10 + Ceil(ClipCount, PixelsPerChunk)
            /\ IsCmd(BusAndDelays[9], CmdRAMWR)
            /\ IsDelayOf(BusAndDelays[10], 10)
            /\ \A i \in 11..Len(BusAndDelays) : IsBurst(BusAndDelays[i])
            /\ \A k \in 0..(ClipCount - 1) :
                  TransmittedPixel(k) = NextItem(call.colors, k)

C25_Witness ==
    /\ Returned /\ call.op = "init"
    /\ PinFailures = 2
    /\ rst = "low"
    /\ Len(Xfers) = 8

(* C26: a fill requests items from the pixel source exactly width x height
   times, width and height being those of the rectangle it transmits: one
   item at a time, in order, none twice and none beyond that count, so that
   an endless source is consumed width x height items deep. *)
C26_SourceRequestedExactly ==
    /\ [](IsFill =>
            /\ pos <= ClipCount
            /\ Returned => pos = ClipCount
            /\ (Returned /\ call.op = "fill_contiguous") =>
                  \A k \in 0..(ClipCount - 1) :
                      TransmittedPixel(k) = ColourOf(k))
    /\ [][(IsFill /\ pos' # pos) =>
            (Running("write") /\ pos' = pos + 1)]_vars

C26_Witness ==
    /\ Returned /\ call.op = "fill_solid"
    /\ ~FullyInside(call.area) /\ ClipCount = 2
    /\ pos = 2
    /\ call.area.w * call.area.h > 2

(* C27: the concatenation of the payloads of all bursts of one fill is
   exactly the pixels the fill consumed, two bytes each, high byte first,
   in source order: no byte lost, duplicated or reordered, and no byte that
   is not part of a consumed pixel. *)
C27_PayloadIsConsumedPixels ==
    (Returned /\ IsFill) =>
        /\ Len(Payload) = 2 * pos
        /\ \A i \in 1..Len(Payload) :
              Payload[i] =
                  to_be_bytes(NextItem(clrs, (i - 1) \div 2))[2 - (i % 2)]

(* C28: when the requested rectangle has an empty intersection with the
   bounding box, the fill transfers no pixel: it performs no payload burst
   and consumes no item of the source. *)
C28_EmptyIntersectionNoPixel ==
    (IsFill /\ ClipEmpty) => (Bursts = <<>> /\ pos = 0)

C28_Witness ==
    /\ Returned /\ IsFill /\ ClipEmpty
    /\ call.area.w > 0 /\ call.area.h > 0
    /\ Len(Xfers) > 0
    /\ Bursts = <<>>

(* What an observer of the lines and of the bus sees of an event: the line
   and the level written, the delay, or the buffer sent and its bytes *)
Seen(e) ==
    [k |-> e.k, s |-> e.s, t |-> IF e.k = "pin" THEN e.t ELSE "",
     n |-> e.n, bs |-> e.bs]

SeenTrace == [i \in 1..Len(trace) |-> Seen(trace[i])]

(* What a body emits when it runs to its end, read off its steps; m is the
   contents of the buffers when it starts *)
RECURSIVE Emitted(_, _)
Emitted(steps, m) ==
    IF steps = <<>> THEN <<>>
    ELSE LET st == Head(steps)
             rest == Tail(steps)
         IN  CASE st.k = "pin" ->
                    <<Seen(Event("pin", st.s, st.t, "", 0, <<>>))>>
                        \o Emitted(rest, m)
               [] st.k = "delay" ->
                    <<Seen(Event("delay", "", "", "", st.n, <<>>))>>
                        \o Emitted(rest, m)
               [] st.k = "store" ->
                    Emitted(rest, [m EXCEPT ![st.s] = st.m])
               [] st.k = "start" ->
                    <<Seen(Event("xfer", st.s, "", "", st.n,
                                 IF st.t \in {"raw_dup", "raw_move"}
                                 THEN st.m ELSE m[st.s]))>>
                        \o Emitted(rest, m)
               [] OTHER -> Emitted(rest, m)

IsPrefixOf(p, q) == Len(p) <= Len(q) /\ p = SubSeq(q, 1, Len(p))

OtherVariant == IF variant = "inplace" THEN "builder" ELSE "inplace"

SharedOps == {"init", "set_size", "begin_draw", "send_frame", "off"}

(* The body the other DMA driver runs for the current call *)
BodyOf(v) ==
    CASE call.op = "init"       -> init(v)
      [] call.op = "set_size"   -> set_size(v, call.xs, call.xe, call.ys, call.ye)
      [] call.op = "begin_draw" -> begin_draw(v)
      [] call.op = "send_frame" -> send_frame(v, call.len)
      [] call.op = "off"        -> off(v)

(* C29: the self-returning DMA driver and the in-place DMA driver are
   observationally equivalent: for the same call of init, set_size,
   begin_draw, send_frame or off, at every point of a sequence of calls,
   what one driver has emitted so far (line writes, delays, transmitted
   bytes) is what the other driver's body emits, and a call that returns
   has emitted all of it. *)
C29_DriversEquivalent ==
    (variant \in {"inplace", "builder"} /\ call.op \in SharedOps
        /\ status # "idle") =>
        LET other == Emitted(BodyOf(OtherVariant), mem) IN
        /\ IsPrefixOf(SeenTrace, other)
        /\ Returned => SeenTrace = other

C29_Witness ==
    /\ Returned /\ variant = "builder"
    /\ call.op = "send_frame" /\ call.len > ChunkSize
    /\ last.op = "set_size"
    /\ Len(Xfers) = 2

IsSpiWrite(e) == e.k = "write"
SpiWritten == ConcatPayloads(SelectSeq(trace, IsSpiWrite))

(* C30: the init of the synchronous driver puts on the bus the bytes of the
   fixed init sequence, in its order (0x01, 0x11, 0x3A 0x55, 0x36 0x00,
   0x21, 0x29), inversion-on before display-on, and settles at least 50 ms
   after display-on. *)
C30_SyncInitSameSequence ==
    (Returned /\ call.op = "spi_init") =>
        /\ SpiWritten = InitBytes
        /\ trace[Len(trace)].k = "delay" /\ trace[Len(trace)].n >= 50

(* The current call has driven chip select low *)
SelectAsserted == \E i \in 1..Len(trace) : IsPinWrite(trace[i], "cs", "low")

(* C31: in the synchronous driver chip select brackets each command or data
   unit on every path: a send_command or send_data call that has asserted
   chip select has deasserted it again when it returns, whether it returns
   Ok or a bus error. *)
C31_SyncSelectBracketed ==
    (call.op \in {"spi_send_command", "spi_send_data"} /\ Ended
        /\ fault \in {"", "Spi"} /\ SelectAsserted) =>
        cs = "high"

DmaPublicOps ==
    {"init", "set_size", "begin_draw", "send_frame", "draw_entire_screen",
     "draw_color_entire_screen", "off", "fill_contiguous", "fill_solid",
     "clear"}

(* C32: whenever a public operation of a DMA driver (init, set_size,
   begin_draw, send_frame, draw_entire_screen, draw_color_entire_screen,
   off, a fill) has returned, chip select is deasserted (high), after any
   sequence of these operations. *)
C32_DeselectedOnReturn ==
    (Returned /\ variant \in {"inplace", "builder"}
        /\ call.op \in DmaPublicOps) =>
        cs = "high"

C32_Witness ==
    /\ Returned /\ call.op = "draw_entire_screen" /\ call.len > ChunkSize
    /\ last.op \in {"fill_contiguous", "fill_solid"}
    /\ \E i \in 1..Len(last.trace) : last.trace[i].k = "xfer"
    /\ SelectAsserted
    /\ cs = "high"

(* The source of the current fill runs out before the rectangle the fill
   transmits is filled *)
SourceShort == IsFill /\ call.colors.kind = "seq" /\ call.colors.len < ClipCount

(* C33: if the pixel source is exhausted before width x height items (of
   the rectangle the fill transmits) have been produced, the fill aborts at
   that item and never returns: it panics when it asks for the item after
   the last one, chip select is still asserted then, the chunk buffer is
   not on the handle, and every pixel transmitted is an item of the
   source, none made up for the missing ones. *)
C33_ExhaustedSourceAborts ==
    SourceShort =>
        /\ status \in {"running", "panic_exhausted"}
        /\ pos <= call.colors.len
        /\ Len(Bursts) * PixelsPerChunk <= pos
        /\ \A k \in 0..(Len(Bursts) * PixelsPerChunk - 1) :
              TransmittedPixel(k) = ColourOf(k)
        /\ status = "panic_exhausted" =>
              /\ pos = call.colors.len
              /\ cs = "low"
              /\ "chunk_buffer" \notin present

C33_Witness ==
    /\ SourceShort /\ status = "panic_exhausted"
    /\ FullyInside(call.area)
    /\ pos = 3 /\ Len(Bursts) = 1

IsFrameBurst(e) == IsXfer(e) /\ e.s = "frame"
FrameBursts == SelectSeq(trace, IsFrameBurst)

(* Index of the last write of the data/command line in the trace, 0 if the
   call has written none *)
LastDcWrite ==
    LET S == {i \in 1..Len(trace) : IsPinOf(trace[i], "dc")}
    IN  IF S = {} THEN 0 ELSE CHOOSE i \in S : \A j \in S : j <= i

CeilDiv(a, b) == (a + b - 1) \div b

(* C34: send_frame and draw_entire_screen split a buffer of n bytes into
   ceil(n / 32768) bursts, each of 32768 bytes except possibly the last,
   which together are the buffer in order; they are sent with data/command
   high under one chip-select assertion: after data/command has been
   raised, chip select is asserted once, the bursts follow, and chip select
   is deasserted once.  An empty buffer gives no burst and one assertion
   and deassertion. *)
C34_FrameChunking ==
    (Returned /\ call.op \in {"send_frame", "draw_entire_screen"}) =>
        LET n == call.len
            F == FrameBursts
            d == LastDcWrite
        IN  /\ Len(F) = CeilDiv(n, ChunkSize)
            /\ \A i \in 1..Len(F) :
                  /\ F[i].bs = <<(i - 1) * ChunkSize>>
                  /\ F[i].n = IF i < Len(F) THEN ChunkSize
                              ELSE n - (i - 1) * ChunkSize
                  /\ F[i].n >= 1
                  /\ F[i].t = "high" /\ F[i].c = "low"
            /\ d >= 1 /\ IsPinWrite(trace[d], "dc", "high")
            /\ Len(trace) = d + Len(F) + 2
            /\ IsPinWrite(trace[d + 1], "cs", "low")
            /\ \A i \in 1..Len(F) : trace[d + 1 + i] = F[i]
            /\ IsPinWrite(trace[Len(trace)], "cs", "high")

C34_Witness ==
    /\ Returned /\ call.op = "draw_entire_screen"
    /\ call.len = 2 * ChunkSize + 1
    /\ Len(FrameBursts) = 3
    /\ FrameBursts[3].n = 1

DrawingOps ==
    {"set_size", "begin_draw", "send_frame", "fill_contiguous", "fill_solid",
     "clear", "off"}

(* C35: only init drives the reset line: no step of set_size, begin_draw,
   send_frame, a fill, clear or off changes it, and init returns with the
   line high, so that after init has returned the line is high during and
   after every drawing operation that follows. *)
C35_OnlyInitDrivesReset ==
    /\ []((Returned /\ call.op = "init") => rst = "high")
    /\ []((last.op = "init" /\ call.op \in DrawingOps) => rst = "high")
    /\ [][(call'.op \in DrawingOps) => rst' = rst]_vars

C35_Witness ==
    /\ Returned /\ call.op = "fill_contiguous" /\ last.op = "init"
    /\ Len(Bursts) >= 1
    /\ rst = "high"

(* The next step hands the chunk buffer to a transfer *)
AboutToFlush == Running("start") /\ Head(todo).s = "chunk_buffer"

(* C36: in the loop of a fill, for every capacity C >= 2 of the chunk
   buffer: a pixel is written at idx and idx + 1 with idx + 1 < C, idx is
   always even and at most C, no write falls outside the buffer, and no
   burst is started with idx = 0, neither in the loop nor at the final
   flush. *)
C36_IndexInvariants ==
    (IsFill /\ buf_len >= 2) =>
        /\ idx % 2 = 0
        /\ 0 <= idx /\ idx <= buf_len
        /\ Running("write") => idx + 1 < buf_len
        /\ AboutToFlush => idx > 0
        /\ status # "panic_bounds"

C36_Witness ==
    /\ IsFill /\ AboutToFlush
    /\ buf_len = 3 /\ idx = 2
    /\ pos < ClipCount
    /\ Len(Bursts) = 1

(* The six units of draw_screen: data/command level and bytes of each *)
DrawScreenUnits(buffer) ==
    <<[dc |-> "low",  bs |-> <<CmdCASET>>],
      [dc |-> "high", bs |-> <<0, 0, Hi(W - 1), Lo(W - 1)>>],
      [dc |-> "low",  bs |-> <<CmdRASET>>],
      [dc |-> "high", bs |-> <<Hi(20), Lo(20), Hi(20 + H - 1), Lo(20 + H - 1)>>],
      [dc |-> "low",  bs |-> <<CmdRAMWR>>],
      [dc |-> "high", bs |-> buffer]>>

(* C37: draw_screen of the synchronous driver emits, in order, CASET with
   the big-endian bounds 0 and W-1, RASET with the big-endian bounds 20
   and 20+H-1, then write-RAM followed by the whole buffer in one data
   transfer, each command and each data unit under its own chip-select
   assertion. *)
C37_SyncDrawScreenSequence ==
    (Returned /\ call.op \in {"spi_draw_screen", "st7789v2_draw_screen"}) =>
        /\ Len(trace) = 24
        /\ \E buffer \in SpiBuffers :
            /\ Len(buffer) = call.len
            /\ \A u \in 1..6 :
                LET x == DrawScreenUnits(buffer)[u]
                    b == 4 * (u - 1)
                IN  /\ IsPinWrite(trace[b + 1], "dc", x.dc)
                    /\ IsPinWrite(trace[b + 2], "cs", "low")
                    /\ trace[b + 3].k = "write" /\ trace[b + 3].bs = x.bs
                    /\ IsPinWrite(trace[b + 4], "cs", "high")

====
